---------------------------- MODULE Spec2Model ----------------------------
(***************************************************************************)
(* A state-machine model of mcp_proxy/mcp_server.py: the orchestrator      *)
(* run_mcp_server (start-up of static backends on one AsyncExitStack, the  *)
(* route tree, serving, unwinding) and the four transport handlers         *)
(* (static and dynamic SSE, static and dynamic Streamable-HTTP), together  *)
(* with the Starlette routing that dispatches a request to them.           *)
(*                                                                         *)
(* Strings that the code inspects character by character (paths, raw       *)
(* paths) are sequences of tokens: "/" and "?" are tokens of their own and *)
(* every other token is a run of characters holding neither, so that       *)
(* rstrip("/"), endswith("/mcp"), split(b"?", 1) and the route regexes are *)
(* computed exactly as the code computes them.                             *)
(***************************************************************************)
EXTENDS Naturals, Sequences, FiniteSets, TLC

(***************************************************************************)
(* Bounds of the model.                                                    *)
(***************************************************************************)
\* Number of HTTP requests served during one application lifetime.
MaxReq == 2

(***************************************************************************)
(* Token strings.                                                          *)
(***************************************************************************)
S == "/"
Q == "?"

Last(s) == s[Len(s)]

StartsWith(s, p) == Len(p) <= Len(s) /\ SubSeq(s, 1, Len(p)) = p

EndsWith(s, p) == Len(p) <= Len(s) /\ SubSeq(s, Len(s) - Len(p) + 1, Len(s)) = p

\* str.rstrip(c): every trailing occurrence of c is removed.
RECURSIVE RStrip(_, _)
RStrip(s, c) == IF s # <<>> /\ Last(s) = c THEN RStrip(SubSeq(s, 1, Len(s) - 1), c) ELSE s

Contains(s, c) == \E i \in 1..Len(s) : s[i] = c

\* Index of the first occurrence of c in s (s holds c).
FirstIndex(s, c) == CHOOSE i \in 1..Len(s) : s[i] = c /\ \A j \in 1..(i - 1) : s[j] # c

\* bytes.split(c, 1) of a string holding c: the parts before and after the first c.
SplitFirst(s, c) ==
    LET i == FirstIndex(s, c)
    IN  [before |-> SubSeq(s, 1, i - 1), after |-> SubSeq(s, i + 1, Len(s))]

Reverse(s) == [i \in 1..Len(s) |-> s[Len(s) + 1 - i]]

(***************************************************************************)
(* Configuration: the arguments of run_mcp_server.                         *)
(***************************************************************************)
Names == {"a", "b"}
Backends == {"default"} \cup Names

\* Environment variables and the marker of a variable that is not set.
EnvNames == {"API_KEY", "TOKEN", "HOME"}
Unset == "<unset>"
\* A header the request does not carry (Headers.get returns None).
Absent == "<absent>"

EmptyEnv == [e \in EnvNames |-> Unset]

\* params.env of each backend (StdioServerParameters.env).
BaseEnv(b) ==
    IF b = "b" THEN [EmptyEnv EXCEPT !["API_KEY"] = "base", !["HOME"] = "/h"]
    ELSE EmptyEnv

\* Header names as configured, and the lower-case form under which an ASGI
\* request carries them; Headers.get compares key.lower().
HeaderNames == {"X-Api-Key", "X-Tok"}
Lower(h) == IF h = "X-Api-Key" THEN "x-api-key" ELSE IF h = "X-Tok" THEN "x-tok" ELSE h
WireNames == {Lower(h) : h \in HeaderNames}

\* A header->env mapping is a sequence of pairs (a dict in insertion order).
Mapping1 == << [header |-> "X-Api-Key", env |-> "API_KEY"], [header |-> "X-Tok", env |-> "TOKEN"] >>
NoMapping == [present |-> FALSE, map |-> <<>>]
EmptyMapping == [present |-> TRUE, map |-> <<>>]
SomeMapping == [present |-> TRUE, map |-> Mapping1]

DefaultChoices == BOOLEAN
NamedChoices == { <<>>, <<"a", "b">> }
HeaderMappingChoices ==
    { [n \in Names |-> NoMapping],
      [n \in Names |-> IF n = "b" THEN SomeMapping ELSE EmptyMapping] }

VARIABLES
    stateless,              \* mcp_settings.stateless
    default_server_params,  \* TRUE when a default backend is configured
    named_server_params,    \* the named backends, in dict order
    header_mappings,        \* name -> header->env mapping (or no entry)
    params_env,             \* backend -> its params.env object
    pc,                     \* where run_mcp_server is
    cur,                    \* the backend being set up
    idx,                    \* position in named_server_params
    stack,                  \* the master AsyncExitStack
    acquired,               \* resources entered into the master stack, in order
    released,               \* resources released from the master stack, in order
    children,               \* static backend -> the child processes launched for it
    mgr,                    \* static backend -> state of its session manager
    sessions,               \* static backend -> the session ids its manager knows
    all_routes,             \* the route tree
    redirect_slashes,       \* starlette_app.router.redirect_slashes
    server_instances,       \* _global_status["server_instances"]
    api_last_activity,      \* _global_status["api_last_activity"]
    now,                    \* the wall clock; it advances between one request and the next
    served,                 \* http_server.serve() was reached
    exc,                    \* the exception run_mcp_server is leaving with
    log,                    \* the errors run_mcp_server has logged
    reqs                    \* request id -> the request and its handler's state

cfgvars == << stateless, default_server_params, named_server_params, header_mappings >>
orchvars == << pc, cur, idx, stack, acquired, released, mgr, all_routes,
               redirect_slashes, server_instances, served, exc, log >>
vars == << stateless, default_server_params, named_server_params, header_mappings, params_env,
           pc, cur, idx, stack, acquired, released, children, mgr, sessions, all_routes,
           redirect_slashes, server_instances, api_last_activity, now, served, exc, log, reqs >>

Reqs == 1..MaxReq

(***************************************************************************)
(* Routes (starlette.routing).                                             *)
(***************************************************************************)
P_status == << S, "status" >>
P_mcp == << S, "mcp" >>
P_sse == << S, "sse" >>
P_messages == << S, "messages", S >>
P_servers(name) == << S, "servers", S, name >>

Route(path, app, b) ==
    [kind |-> "Route", path |-> path, app |-> app, backend |-> b,
     routes |-> <<>>, redirect_slashes |-> FALSE]

\* Mount(path, app=...): the path is stored with its trailing slashes stripped.
MountApp(path, app, b) ==
    [kind |-> "Mount", path |-> RStrip(path, S), app |-> app, backend |-> b,
     routes |-> <<>>, redirect_slashes |-> FALSE]

\* Mount(path, routes=...) wraps the routes in a Router of its own, built with
\* Router's default redirect_slashes=True.
MountRoutes(path, routes, b) ==
    [kind |-> "Mount", path |-> RStrip(path, S), app |-> "router", backend |-> b,
     routes |-> routes, redirect_slashes |-> TRUE]

\* Mutant: the routes of a dynamic backend hold a /messages/ mount too.
create_dynamic_server_routes_with_messages(b) ==
    << Route(P_mcp, "handle_dynamic_mcp", b),
       MountApp(P_mcp, "handle_dynamic_mcp", b),
       Route(P_sse, "handle_dynamic_sse", b),
       MountApp(P_messages, "handle_post_message", b) >>

create_dynamic_server_routes(b) ==
    << Route(P_mcp, "handle_dynamic_mcp", b),
       MountApp(P_mcp, "handle_dynamic_mcp", b),
       Route(P_sse, "handle_dynamic_sse", b) >>

create_single_instance_routes(b) ==
    << Route(P_mcp, "handle_streamable_http_instance", b),
       MountApp(P_mcp, "handle_streamable_http_instance", b),
       Route(P_sse, "handle_sse_instance", b),
       MountApp(P_messages, "handle_post_message", b) >>

\* The part of the path a router matches on: the path without the root_path
\* of the mounts already entered (starlette get_route_path).
get_route_path(path, root_path) ==
    IF StartsWith(path, root_path) THEN SubSeq(path, Len(root_path) + 1, Len(path)) ELSE path

\* route.matches(scope) # Match.NONE.  A Route matches http scopes whose route
\* path is its path; a Mount matches http and websocket scopes whose route path
\* is its path followed by "/" and anything.
RouteMatches(route, type, rp) ==
    IF route.kind = "Route"
    THEN type = "http" /\ rp = route.path
    ELSE /\ Len(rp) > Len(route.path)
         /\ StartsWith(rp, route.path)
         /\ rp[Len(route.path) + 1] = S

\* Index of the first route that matches, 0 when none does.
FirstMatch(routes, type, rp) ==
    IF \E i \in 1..Len(routes) : RouteMatches(routes[i], type, rp)
    THEN CHOOSE i \in 1..Len(routes) :
            /\ RouteMatches(routes[i], type, rp)
            /\ \A j \in 1..(i - 1) : ~RouteMatches(routes[j], type, rp)
    ELSE 0

Dispatched(app, b, path, root_path, status) ==
    [app |-> app, backend |-> b, path |-> path, root_path |-> root_path, status |-> status]

\* Router.app: the first matching route handles the request; a Mount extends
\* root_path and hands the unchanged path on; with no match a router whose
\* redirect_slashes is set answers with a redirect when the path with its
\* trailing slash toggled matches a route, and otherwise with 404.
RECURSIVE RouterApp(_, _, _, _, _)
RouterApp(routes, redirect, type, path, root_path) ==
    LET rp == get_route_path(path, root_path)
        i == FirstMatch(routes, type, rp)
    IN  IF i # 0
        THEN LET rt == routes[i]
             IN  IF rt.kind = "Route" THEN Dispatched(rt.app, rt.backend, path, root_path, 0)
                 ELSE IF rt.app = "router"
                      THEN RouterApp(rt.routes, rt.redirect_slashes, type, path, root_path \o rt.path)
                      ELSE Dispatched(rt.app, rt.backend, path, root_path \o rt.path, 0)
        ELSE IF type = "http" /\ redirect /\ rp # <<>> /\ rp # << S >>
             THEN LET rpath == IF Last(rp) = S THEN RStrip(path, S) ELSE path \o << S >>
                  IN  IF FirstMatch(routes, type, get_route_path(rpath, root_path)) # 0
                      THEN Dispatched("redirect", "none", rpath, root_path, 307)
                      ELSE Dispatched("not_found", "none", path, root_path, 404)
             ELSE Dispatched("not_found", "none", path, root_path, 404)

(***************************************************************************)
(* ASGI scopes and the path normalisation of the Streamable-HTTP handlers. *)
(***************************************************************************)
NoScope == [type |-> "none", path |-> <<>>, raw_path |-> <<>>, query_string |-> <<>>,
            root_path |-> <<>>]

\* The scope the server builds for a request: raw_path is the path as received,
\* which carries the query string too when rawq is set.
MakeScope(type, path, query, rawq) ==
    [type |-> type, path |-> path,
     raw_path |-> IF rawq /\ query # <<>> THEN path \o << Q >> \o query ELSE path,
     query_string |-> query, root_path |-> <<>>]

\* path and path.rstrip("/") == "/mcp" and not path.endswith("/")
StaticNeedsSlash(path) ==
    path # <<>> /\ RStrip(path, S) = P_mcp /\ ~EndsWith(path, << S >>)

\* path and path.rstrip("/").endswith("/mcp") and not path.endswith("/")
DynamicNeedsSlash(path) ==
    path # <<>> /\ EndsWith(RStrip(path, S), P_mcp) /\ ~EndsWith(path, << S >>)

NormalizedRawPath(raw_path) ==
    IF Contains(raw_path, Q)
    THEN LET sp == SplitFirst(raw_path, Q)
         IN  RStrip(sp.before, S) \o << S, Q >> \o sp.after
    ELSE RStrip(raw_path, S) \o << S >>

\* updated_scope = dict(scope) with "path" and, when raw_path is set, "raw_path" replaced.
WithSlash(scope) ==
    [scope EXCEPT !.path = @ \o << S >>,
                  !.raw_path = IF @ # <<>> THEN NormalizedRawPath(@) ELSE @]

static_updated_scope(scope) ==
    IF scope.type = "http" /\ StaticNeedsSlash(scope.path) THEN WithSlash(scope) ELSE scope

dynamic_updated_scope(scope) ==
    IF scope.type = "http" /\ DynamicNeedsSlash(scope.path) THEN WithSlash(scope) ELSE scope

\* Mutant: updated_scope = scope, without dict(scope) - the two keys are
\* written into the incoming scope.
AssignInPlace(scope, updated) == [scope |-> updated, updated_scope |-> updated]

\* updated_scope = dict(scope) before the keys are written: the incoming scope
\* as the handler leaves it, and the scope it hands to handle_request.
AssignToCopy(scope, updated) == [scope |-> scope, updated_scope |-> updated]

(***************************************************************************)
(* Streamable-HTTP sessions (StreamableHTTPSessionManager).                *)
(***************************************************************************)
\* handle_request of a manager that knows the session ids in known, for a
\* request carrying session id sid (0: none), fresh being an unused id.  A
\* stateless manager keeps no session; a stateful one opens a session for a
\* request without id, serves a request whose id it knows, and rejects a
\* request whose id it does not know.
handle_request(known, sid, fresh) ==
    IF stateless THEN [sessions |-> known, issued |-> 0, known |-> "stateless"]
    ELSE IF sid = 0 THEN [sessions |-> known \cup {fresh}, issued |-> fresh, known |-> "new"]
    ELSE IF sid \in known THEN [sessions |-> known, issued |-> 0, known |-> "known"]
    ELSE [sessions |-> known, issued |-> 0, known |-> "unknown"]

(***************************************************************************)
(* Header extraction and the merged environment of a dynamic request.      *)
(***************************************************************************)
NoHeaders == [w \in WireNames |-> Absent]

\* request.headers.get(header_name): the lookup is by the lower-cased name.
HeaderGet(hdrs, header_name) ==
    IF Lower(header_name) \in DOMAIN hdrs THEN hdrs[Lower(header_name)] ELSE Absent

\* Mutant: "if value is not None:" - an empty header is mapped too.
HeaderIsNotNone(value) == value # Absent

\* "if value:" - a header that is absent (None) or empty is skipped.
HeaderIsSet(value) == value # Absent /\ value # ""

RECURSIVE ExtractFrom(_, _, _)
ExtractFrom(hdrs, mapping, env_vars) ==
    IF mapping = <<>> THEN env_vars
    ELSE LET value == HeaderGet(hdrs, Head(mapping).header)
         IN  ExtractFrom(hdrs, Tail(mapping),
                         IF HeaderIsSet(value)
                         THEN [env_vars EXCEPT ![Head(mapping).env] = value]
                         ELSE env_vars)

extract_header_env_vars(hdrs, header_mapping) == ExtractFrom(hdrs, header_mapping, EmptyEnv)

\* dict.update: every variable of upd replaces the one of env.
EnvUpdate(env, upd) == [e \in EnvNames |-> IF upd[e] # Unset THEN upd[e] ELSE env[e]]

\* Mutant: merged_env = params.env, without the copy - update() writes into params.env.
MergeEnvNoCopy(base, header_env_vars) ==
    [merged |-> EnvUpdate(base, header_env_vars), base |-> EnvUpdate(base, header_env_vars)]

\* merged_env = (params.env or {}).copy(); merged_env.update(header_env_vars):
\* the merged environment, and params.env as the two statements leave it.
MergeEnv(base, header_env_vars) ==
    [merged |-> EnvUpdate(base, header_env_vars), base |-> base]

(***************************************************************************)
(* The orchestrator: run_mcp_server.                                       *)
(***************************************************************************)
\* Mutant: any entry in header_mappings, even an empty one, makes a backend dynamic.
IsDynamicAnyEntry(name) == header_mappings[name].present

IsDynamic(name) == header_mappings[name].present /\ header_mappings[name].map # <<>>

Resource(kind, owner, child) == [kind |-> kind, owner |-> owner, child |-> child]

\* A child process: the environment it runs with, and whether it is alive.
Child(env) == [env |-> env, alive |-> TRUE]

IdleReq ==
    [pc |-> "idle", app |-> "none", backend |-> "none", scope |-> NoScope, sent |-> NoScope,
     hdrs |-> NoHeaders, env |-> EmptyEnv, children |-> <<>>, stack |-> <<>>, trace |-> <<>>,
     status |-> 0, start_activity |-> 0, mgr |-> "none", mgr_at_call |-> "none",
     outcome |-> "none", origin |-> NoScope, sid |-> 0, issued |-> 0, known |-> "none",
     msessions |-> {}]

Init ==
    /\ stateless \in BOOLEAN
    /\ default_server_params \in DefaultChoices
    /\ named_server_params \in NamedChoices
    /\ header_mappings \in HeaderMappingChoices
    /\ params_env = [b \in Backends |-> BaseEnv(b)]
    /\ pc = "setup_default"
    /\ cur = "default"
    /\ idx = 1
    /\ stack = <<>>
    /\ acquired = <<>>
    /\ released = <<>>
    /\ children = [b \in Backends |-> <<>>]
    /\ mgr = [b \in Backends |-> "none"]
    /\ sessions = [b \in Backends |-> {}]
    /\ all_routes = << Route(P_status, "_handle_status", "none") >>
    /\ redirect_slashes = TRUE
    /\ server_instances = [b \in Backends |-> "none"]
    /\ api_last_activity = 0
    /\ now = 0
    /\ served = FALSE
    /\ exc = "none"
    /\ log = <<>>
    /\ reqs = [r \in Reqs |-> IdleReq]

\* stack.enter_async_context(stdio_client(params)) for backend b: the child is
\* launched with params.env and its handle pushed, or the launch fails and
\* the exception leaves run_mcp_server through the master stack.
EnterStdio(b) ==
    \/ /\ children' = [children EXCEPT ![b] = Append(@, Child(params_env[b]))]
       /\ stack' = Append(stack, Resource("stdio", b, Len(children[b]) + 1))
       /\ acquired' = Append(acquired, Resource("stdio", b, Len(children[b]) + 1))
       /\ pc' = "session"
       /\ exc' = exc
    \/ /\ pc' = "unwinding"
       /\ exc' = "SpawnFailed"
       /\ UNCHANGED << children, stack, acquired >>

SetupDefaultStdio ==
    /\ pc = "setup_default"
    /\ default_server_params
    /\ cur' = "default"
    /\ EnterStdio("default")
    /\ UNCHANGED << cfgvars, params_env, idx, released, mgr, sessions, all_routes, redirect_slashes,
                    server_instances, api_last_activity, now, served, log, reqs >>

SetupNoDefault ==
    /\ pc = "setup_default"
    /\ ~default_server_params
    /\ pc' = "setup_named"
    /\ UNCHANGED << cfgvars, params_env, cur, idx, stack, acquired, released, children, sessions, mgr,
                    all_routes, redirect_slashes, server_instances, api_last_activity, now,
                    served, log, exc, reqs >>

\* Mutant: a dynamic backend is given a child at start-up too.
SetupNamedDynamicSpawns ==
    /\ pc = "setup_named"
    /\ idx <= Len(named_server_params)
    /\ LET name == named_server_params[idx]
       IN  /\ IsDynamic(name)
           /\ all_routes' = Append(all_routes,
                  MountRoutes(P_servers(name), create_dynamic_server_routes(name), name))
           /\ server_instances' = [server_instances EXCEPT ![name] = "dynamic"]
           /\ children' = [children EXCEPT ![name] = Append(@, Child(params_env[name]))]
    /\ idx' = idx + 1
    /\ UNCHANGED << cfgvars, params_env, pc, cur, stack, acquired, released, sessions, mgr,
                    redirect_slashes, api_last_activity, now, served, log, exc, reqs >>

\* A named backend with a non-empty header mapping: its routes are created
\* and mounted under /servers/<name>; nothing is launched.
SetupNamedDynamic ==
    /\ pc = "setup_named"
    /\ idx <= Len(named_server_params)
    /\ LET name == named_server_params[idx]
       IN  /\ IsDynamic(name)
           /\ all_routes' = Append(all_routes,
                  MountRoutes(P_servers(name), create_dynamic_server_routes(name), name))
           /\ server_instances' = [server_instances EXCEPT ![name] = "dynamic"]
    /\ idx' = idx + 1
    /\ UNCHANGED << cfgvars, params_env, pc, cur, stack, acquired, released, children, sessions, mgr,
                    redirect_slashes, api_last_activity, now, served, log, exc, reqs >>

SetupNamedStdio ==
    /\ pc = "setup_named"
    /\ idx <= Len(named_server_params)
    /\ ~IsDynamic(named_server_params[idx])
    /\ cur' = named_server_params[idx]
    /\ EnterStdio(named_server_params[idx])
    /\ UNCHANGED << cfgvars, params_env, idx, released, mgr, sessions, all_routes, redirect_slashes,
                    server_instances, api_last_activity, now, served, log, reqs >>

\* stack.enter_async_context(ClientSession(*stdio_streams))
SetupSession ==
    /\ pc = "session"
    /\ stack' = Append(stack, Resource("session", cur, 0))
    /\ acquired' = Append(acquired, Resource("session", cur, 0))
    /\ pc' = "proxy"
    /\ UNCHANGED << cfgvars, params_env, cur, idx, released, children, sessions, mgr, all_routes,
                    redirect_slashes, server_instances, api_last_activity, now, served, log, exc,
                    reqs >>

\* proxy = await create_proxy_server(session)
SetupProxy ==
    /\ pc = "proxy"
    /\ pc' = "run"
    /\ UNCHANGED << cfgvars, params_env, cur, idx, stack, acquired, released, children, sessions, mgr,
                    all_routes, redirect_slashes, server_instances, api_last_activity, now,
                    served, log, exc, reqs >>

\* Mutant: the manager's run() scope is not entered.
EnterRunSkipped(state) == state

\* The state of a session manager once its run() scope has been entered.
EnterRun(state) == "running"

\* create_single_instance_routes, stack.enter_async_context(http_manager.run()),
\* the routes added at the root (default) or under /servers/<name>, the status tag.
SetupRun ==
    /\ pc = "run"
    /\ mgr' = [mgr EXCEPT ![cur] = EnterRun("created")]
    /\ stack' = Append(stack, Resource("run", cur, 0))
    /\ acquired' = Append(acquired, Resource("run", cur, 0))
    /\ IF cur = "default"
       THEN /\ all_routes' = all_routes \o create_single_instance_routes(cur)
            /\ server_instances' = [server_instances EXCEPT ![cur] = "configured"]
            /\ idx' = idx
       ELSE /\ all_routes' = Append(all_routes,
                   MountRoutes(P_servers(cur), create_single_instance_routes(cur), cur))
            /\ server_instances' = [server_instances EXCEPT ![cur] = "static"]
            /\ idx' = idx + 1
    /\ pc' = "setup_named"
    /\ UNCHANGED << cfgvars, params_env, cur, released, children, sessions, redirect_slashes,
                    api_last_activity, now, served, log, exc, reqs >>

\* Mutant: the error is logged and the return is missing - the application
\* is built and served.
NoServersFallThrough ==
    /\ pc = "setup_named"
    /\ idx > Len(named_server_params)
    /\ ~default_server_params /\ named_server_params = <<>>
    /\ log' = Append(log, "No servers configured to run.")
    /\ redirect_slashes' = FALSE
    /\ served' = TRUE
    /\ pc' = "serving"
    /\ UNCHANGED << cfgvars, params_env, cur, idx, stack, acquired, released, children,
                    sessions, mgr, all_routes, server_instances, api_last_activity, now, exc,
                    reqs >>

\* "No servers configured to run.": return from inside the master scope.
NoServers ==
    /\ pc = "setup_named"
    /\ idx > Len(named_server_params)
    /\ ~default_server_params /\ named_server_params = <<>>
    /\ log' = Append(log, "No servers configured to run.")
    /\ pc' = "unwinding"
    /\ UNCHANGED << cfgvars, params_env, cur, idx, stack, acquired, released, children, sessions, mgr,
                    all_routes, redirect_slashes, server_instances, api_last_activity, now,
                    served, exc, reqs >>

\* The Starlette application is built, redirect_slashes of its router is
\* cleared, and http_server.serve() starts.
Serve ==
    /\ pc = "setup_named"
    /\ idx > Len(named_server_params)
    /\ default_server_params \/ named_server_params # <<>>
    /\ redirect_slashes' = FALSE
    /\ served' = TRUE
    /\ pc' = "serving"
    /\ UNCHANGED << cfgvars, params_env, cur, idx, stack, acquired, released, children, sessions, mgr,
                    all_routes, server_instances, api_last_activity, now, exc, log,
                    reqs >>

\* No handler is running.
Quiescent == \A r \in Reqs : reqs[r].pc \in {"idle", "done"}

\* http_server.serve() returns (shutdown signal) or raises (fatal error).  The
\* server shuts down gracefully: it stops accepting and returns once the
\* requests in flight have ended.
ServerExit ==
    /\ pc = "serving"
    /\ Quiescent
    /\ pc' = "unwinding"
    /\ exc' \in {"none", "ServerError"}
    /\ UNCHANGED << cfgvars, params_env, cur, idx, stack, acquired, released, children, sessions, mgr,
                    all_routes, redirect_slashes, server_instances, api_last_activity, now,
                    served, log, reqs >>

\* Mutant: the stack releases in the order of acquisition.
NextToReleaseFifo(stk) == 1

\* The resource an AsyncExitStack releases next: the one entered last.
NextToRelease(stk) == Len(stk)

Without(stk, i) == SubSeq(stk, 1, i - 1) \o SubSeq(stk, i + 1, Len(stk))

\* Mutant: leaving stdio_client leaves the child running.
TerminateLeak(chs, i) == chs

\* Leaving stdio_client terminates its child (and with it its environment).
Terminate(chs, i) == [chs EXCEPT ![i] = [env |-> EmptyEnv, alive |-> FALSE]]

\* The master stack releases one resource: a child is terminated, a session
\* closed, a manager's run() scope left.
Unwind ==
    /\ pc = "unwinding"
    /\ stack # <<>>
    /\ LET i == NextToRelease(stack)
           res == stack[i]
       IN  /\ stack' = Without(stack, i)
           /\ released' = Append(released, res)
           /\ children' = IF res.kind = "stdio"
                          THEN [children EXCEPT ![res.owner] = Terminate(@, res.child)]
                          ELSE children
           /\ mgr' = IF res.kind = "run" THEN [mgr EXCEPT ![res.owner] = "exited"] ELSE mgr
           /\ sessions' = IF res.kind = "run" THEN [sessions EXCEPT ![res.owner] = {}]
                          ELSE sessions
    /\ UNCHANGED << cfgvars, params_env, pc, cur, idx, acquired, all_routes, redirect_slashes,
                    server_instances, api_last_activity, now, served, log, exc, reqs >>

\* Mutant: run_mcp_server is left with resources still on the master stack.
ReturnWithoutUnwinding ==
    /\ pc = "unwinding"
    /\ pc' = "returned"
    /\ UNCHANGED << cfgvars, params_env, cur, idx, stack, acquired, released, children,
                    sessions, mgr, all_routes, redirect_slashes, server_instances,
                    api_last_activity, now, served, log, exc, reqs >>

\* The master stack is empty: the async with block is left, and run_mcp_server
\* returns or lets the exception through.
Return ==
    /\ pc = "unwinding"
    /\ stack = <<>>
    /\ pc' = "returned"
    /\ UNCHANGED << cfgvars, params_env, cur, idx, stack, acquired, released, children, sessions, mgr,
                    all_routes, redirect_slashes, server_instances, api_last_activity, now,
                    served, log, exc, reqs >>

Orchestrator ==
    \/ SetupDefaultStdio \/ SetupNoDefault \/ SetupNamedDynamic \/ SetupNamedStdio
    \/ SetupSession \/ SetupProxy \/ SetupRun \/ NoServers \/ Serve \/ ServerExit
    \/ Unwind \/ Return

(***************************************************************************)
(* Requests.  A handler runs without interruption up to its next await;    *)
(* each action below is one such stretch.  trace lists, in order, what the *)
(* handler of a request has done.                                          *)
(***************************************************************************)
\* Mutant: the new time is computed and not stored.
ActivityNotStored(previous, clock) == previous

\* _update_global_activity: api_last_activity becomes the time of the call.
update_global_activity(previous, clock) == clock

\* Requests are numbered in the order they arrive.
CanArrive(r) ==
    /\ pc = "serving"
    /\ reqs[r].pc = "idle"
    /\ \A q \in Reqs : q < r => reqs[q].pc # "idle"

\* The status the client is answered with.
StatusOf(outcome) ==
    IF outcome = "ok" THEN 200 ELSE IF outcome = "disconnect" THEN 0 ELSE 500

Outcomes == {"ok", "error", "disconnect"}

\* The session ids a client can send: none (0), or one a request was given.
CarriedIds == {0} \cup { reqs[q].issued : q \in Reqs }

\* How a call of handle_request can end: a request with an unknown session id
\* is answered 400 or 404, depending on the version of the manager.
EndOf(r) ==
    IF reqs[r].known = "unknown"
    THEN { [outcome |-> "unknown_session", status |-> st] : st \in {400, 404} }
    ELSE { [outcome |-> o, status |-> StatusOf(o)] : o \in Outcomes }

\* The application's router dispatches the request.
Dispatch(scope) == RouterApp(all_routes, redirect_slashes, scope.type, scope.path, <<>>)

Arrived(scope, d) ==
    [IdleReq EXCEPT !.app = d.app, !.backend = d.backend,
                    !.scope = [scope EXCEPT !.root_path = d.root_path],
                    !.origin = [scope EXCEPT !.root_path = d.root_path],
                    !.start_activity = api_last_activity]

\* No route matches: the router's default answers 404.
NotFound(r, scope) ==
    /\ CanArrive(r)
    /\ Dispatch(scope).app = "not_found"
    /\ now' = now + 1
    /\ reqs' = [reqs EXCEPT ![r] = [Arrived(scope, Dispatch(scope)) EXCEPT
                    !.pc = "done", !.status = 404]]
    /\ UNCHANGED << cfgvars, params_env, orchvars, children, sessions, api_last_activity >>

\* A router with redirect_slashes answers with a redirect to the other form of the path.
Redirected(r, scope) ==
    /\ CanArrive(r)
    /\ Dispatch(scope).app = "redirect"
    /\ now' = now + 1
    /\ reqs' = [reqs EXCEPT ![r] = [Arrived(scope, Dispatch(scope)) EXCEPT
                    !.pc = "done", !.status = 307,
                    !.sent = [NoScope EXCEPT !.path = Dispatch(scope).path]]]
    /\ UNCHANGED << cfgvars, params_env, orchvars, children, sessions, api_last_activity >>

\* _handle_status: JSONResponse(_global_status).
HandleStatus(r, scope) ==
    /\ CanArrive(r)
    /\ Dispatch(scope).app = "_handle_status"
    /\ now' = now + 1
    /\ reqs' = [reqs EXCEPT ![r] = [Arrived(scope, Dispatch(scope)) EXCEPT
                    !.pc = "done", !.status = 200, !.trace = << "response" >>]]
    /\ UNCHANGED << cfgvars, params_env, orchvars, children, sessions, api_last_activity >>

\* Mount("/messages/", app=sse_transport.handle_post_message).
HandlePostMessage(r, scope) ==
    /\ CanArrive(r)
    /\ Dispatch(scope).app = "handle_post_message"
    /\ now' = now + 1
    /\ reqs' = [reqs EXCEPT ![r] = [Arrived(scope, Dispatch(scope)) EXCEPT
                    !.pc = "done", !.status = 202, !.trace = << "handle_post_message" >>]]
    /\ UNCHANGED << cfgvars, params_env, orchvars, children, sessions, api_last_activity >>

\* Mutant: the activity is updated only when the proxy has been started.
SseInstanceEventsLate == << "connect_sse", "proxy_run", "touch" >>

\* What handle_sse_instance does up to the await inside mcp_server_instance.run.
SseInstanceEvents == << "connect_sse", "touch", "proxy_run" >>

\* handle_sse_instance: the connect_sse scope is entered, the activity is
\* updated, the proxy runs on the shared session.
HandleSseInstance(r, scope) ==
    /\ CanArrive(r)
    /\ Dispatch(scope).app = "handle_sse_instance"
    /\ now' = now + 1
    /\ api_last_activity' = update_global_activity(api_last_activity, now')
    /\ reqs' = [reqs EXCEPT ![r] = [Arrived(scope, Dispatch(scope)) EXCEPT
                    !.pc = "running", !.trace = SseInstanceEvents,
                    !.stack = << Resource("sse", Dispatch(scope).backend, 0) >>]]
    /\ UNCHANGED << cfgvars, params_env, orchvars, children, sessions >>

\* Mutant: leaving the connect_sse scope of a static backend terminates the
\* shared child.
SseInstanceEndKillsChild(r) ==
    /\ reqs[r].pc = "running"
    /\ reqs[r].app = "handle_sse_instance"
    /\ \E o \in Outcomes :
          reqs' = [reqs EXCEPT ![r].pc = "done", ![r].outcome = o, ![r].status = StatusOf(o),
                               ![r].stack = <<>>,
                               ![r].trace = @ \o << "exit_sse", "response" >>]
    /\ children' = [children EXCEPT ![reqs[r].backend] = Terminate(@, 1)]
    /\ UNCHANGED << cfgvars, params_env, orchvars, sessions, api_last_activity, now >>

\* mcp_server_instance.run returns or raises, or the client disconnects: the
\* connect_sse scope is left; the shared child is not touched.
SseInstanceEnd(r) ==
    /\ reqs[r].pc = "running"
    /\ reqs[r].app = "handle_sse_instance"
    /\ \E o \in Outcomes :
          reqs' = [reqs EXCEPT ![r].pc = "done", ![r].outcome = o, ![r].status = StatusOf(o),
                               ![r].stack = <<>>,
                               ![r].trace = @ \o << "exit_sse", "response" >>]
    /\ UNCHANGED << cfgvars, params_env, orchvars, children, sessions, api_last_activity, now >>

\* handle_streamable_http_instance: the activity is updated, the path
\* normalised, and the shared manager's handle_request called.
HandleStreamableHttpInstance(r, scope) ==
    /\ CanArrive(r)
    /\ Dispatch(scope).app = "handle_streamable_http_instance"
    /\ now' = now + 1
    /\ api_last_activity' = update_global_activity(api_last_activity, now')
    /\ \E sid \in CarriedIds :
          LET a == Arrived(scope, Dispatch(scope))
              n == AssignToCopy(a.scope, static_updated_scope(a.scope))
              h == handle_request(sessions[a.backend], sid, r)
          IN  /\ reqs' = [reqs EXCEPT ![r] = [a EXCEPT
                       !.pc = "in_handle_request", !.trace = << "touch", "handle_request" >>,
                       !.scope = n.scope, !.sent = n.updated_scope,
                       !.mgr_at_call = mgr[a.backend],
                       !.sid = sid, !.issued = h.issued, !.known = h.known]]
              /\ sessions' = [sessions EXCEPT ![a.backend] = h.sessions]
    /\ UNCHANGED << cfgvars, params_env, orchvars, children >>

StreamableHttpInstanceEnd(r) ==
    /\ reqs[r].pc = "in_handle_request"
    /\ reqs[r].app = "handle_streamable_http_instance"
    /\ \E e \in EndOf(r) :
          reqs' = [reqs EXCEPT ![r].pc = "done", ![r].outcome = e.outcome,
                               ![r].status = e.status,
                               ![r].trace = @ \o << "response" >>]
    /\ UNCHANGED << cfgvars, params_env, orchvars, children, sessions, api_last_activity, now >>

IsDynamicApp(app) == app \in {"handle_dynamic_sse", "handle_dynamic_mcp"}

\* handle_dynamic_sse and handle_dynamic_mcp up to the await of stdio_client:
\* the activity is updated, the header variables are extracted and merged
\* over a copy of params.env.
DynamicStart(r, scope, hdrs) ==
    /\ CanArrive(r)
    /\ IsDynamicApp(Dispatch(scope).app)
    /\ now' = now + 1
    /\ api_last_activity' = update_global_activity(api_last_activity, now')
    /\ \E sid \in (IF Dispatch(scope).app = "handle_dynamic_mcp" THEN CarriedIds ELSE {0}) :
          LET a == Arrived(scope, Dispatch(scope))
              header_env_vars == extract_header_env_vars(hdrs, header_mappings[a.backend].map)
              m == MergeEnv(params_env[a.backend], header_env_vars)
          IN  /\ reqs' = [reqs EXCEPT ![r] = [a EXCEPT
                           !.pc = "spawning", !.hdrs = hdrs, !.env = m.merged, !.sid = sid,
                           !.trace = << "touch", "extract", "merge" >>]]
              /\ params_env' = [params_env EXCEPT ![a.backend] = m.base]
    /\ UNCHANGED << cfgvars, orchvars, children, sessions >>

\* Mutant: a failed launch is raised in run_mcp_server and takes the server down.
DynamicSpawnFatal(r) ==
    /\ reqs[r].pc = "spawning"
    /\ \/ /\ reqs' = [reqs EXCEPT ![r].pc = "session",
                         ![r].children = Append(@, Child(reqs[r].env)),
                         ![r].stack = Append(@, Resource("stdio", reqs[r].backend,
                                                         Len(reqs[r].children) + 1)),
                         ![r].trace = Append(@, "spawn")]
          /\ UNCHANGED << pc, exc >>
       \/ /\ reqs' = [reqs EXCEPT ![r].pc = "done", ![r].outcome = "spawn_failed",
                         ![r].status = 500, ![r].hdrs = NoHeaders, ![r].env = EmptyEnv,
                         ![r].trace = Append(@, "spawn_failed")]
          /\ pc' = "unwinding"
          /\ exc' = "SpawnFailed"
    /\ UNCHANGED << cfgvars, params_env, cur, idx, stack, acquired, released, mgr, all_routes,
                    redirect_slashes, server_instances, served, log, children, sessions,
                    api_last_activity, now >>

\* stack.enter_async_context(stdio_client(dynamic_params)): the child is
\* launched with the merged environment, or the launch fails and the request
\* ends with an error.
DynamicSpawn(r) ==
    /\ reqs[r].pc = "spawning"
    /\ \/ reqs' = [reqs EXCEPT ![r].pc = "session",
                      ![r].children = Append(@, Child(reqs[r].env)),
                      ![r].stack = Append(@, Resource("stdio", reqs[r].backend,
                                                      Len(reqs[r].children) + 1)),
                      ![r].trace = Append(@, "spawn")]
       \/ reqs' = [reqs EXCEPT ![r].pc = "done", ![r].outcome = "spawn_failed",
                      ![r].status = 500, ![r].hdrs = NoHeaders, ![r].env = EmptyEnv,
                      ![r].trace = Append(@, "spawn_failed")]
    /\ UNCHANGED << cfgvars, params_env, orchvars, children, sessions, api_last_activity, now >>

\* handle_dynamic_sse from the ClientSession on: the session is entered, the
\* proxy created, a transport of the request's own connected, and the proxy runs.
DynamicSseRun(r) ==
    /\ reqs[r].pc = "session"
    /\ reqs[r].app = "handle_dynamic_sse"
    /\ reqs' = [reqs EXCEPT ![r].pc = "running",
                   ![r].stack = @ \o << Resource("session", reqs[r].backend, 0),
                                        Resource("sse", reqs[r].backend, 0) >>,
                   ![r].trace = @ \o << "session", "proxy", "connect_sse", "proxy_run" >>]
    /\ UNCHANGED << cfgvars, params_env, orchvars, children, sessions, api_last_activity, now >>

\* handle_dynamic_mcp from the ClientSession on: the session is entered, the
\* proxy created, a manager of the request's own built, its run() scope
\* entered, the path normalised and handle_request called.
DynamicMcpRun(r) ==
    /\ reqs[r].pc = "session"
    /\ reqs[r].app = "handle_dynamic_mcp"
    /\ LET n == AssignToCopy(reqs[r].scope, dynamic_updated_scope(reqs[r].scope))
           h == handle_request({}, reqs[r].sid, r)
       IN  reqs' = [reqs EXCEPT ![r].pc = "in_handle_request",
                      ![r].mgr = EnterRun("created"),
                      ![r].mgr_at_call = EnterRun("created"),
                      ![r].scope = n.scope,
                      ![r].sent = n.updated_scope,
                      ![r].issued = h.issued, ![r].known = h.known,
                      ![r].msessions = h.sessions,
                      ![r].stack = @ \o << Resource("session", reqs[r].backend, 0),
                                           Resource("run", reqs[r].backend, 0) >>,
                      ![r].trace = @ \o << "session", "proxy", "run_enter", "handle_request" >>]
    /\ UNCHANGED << cfgvars, params_env, orchvars, children, sessions, api_last_activity, now >>

\* proxy.run or handle_request returns or raises, or the client disconnects.
DynamicEnd(r) ==
    /\ reqs[r].pc \in {"running", "in_handle_request"}
    /\ IsDynamicApp(reqs[r].app)
    /\ \E e \in EndOf(r) :
          reqs' = [reqs EXCEPT ![r].pc = "unwind", ![r].outcome = e.outcome,
                               ![r].status = e.status]
    /\ UNCHANGED << cfgvars, params_env, orchvars, children, sessions, api_last_activity, now >>

ExitEvent(kind) ==
    IF kind = "stdio" THEN "terminate" ELSE IF kind = "session" THEN "exit_session"
    ELSE IF kind = "run" THEN "run_exit" ELSE "exit_sse"

\* Mutant: the scopes of a dynamic request are left outermost first, the child
\* being terminated before the session and the transport are closed.
DynamicUnwindChildFirst(r) ==
    /\ reqs[r].pc = "unwind"
    /\ reqs[r].stack # <<>>
    /\ LET i == 1
           res == reqs[r].stack[i]
           rest == Without(reqs[r].stack, i)
       IN  reqs' = [reqs EXCEPT
                   ![r].stack = rest,
                   ![r].children = IF res.kind = "stdio" THEN Terminate(@, res.child) ELSE @,
                   ![r].hdrs = IF rest = <<>> THEN NoHeaders ELSE @,
                   ![r].env = IF rest = <<>> THEN EmptyEnv ELSE @,
                   ![r].mgr = IF res.kind = "run" THEN "exited" ELSE @,
                   ![r].msessions = IF res.kind = "run" THEN {} ELSE @,
                   ![r].trace = IF rest = <<>> THEN @ \o << ExitEvent(res.kind), "response" >>
                                ELSE Append(@, ExitEvent(res.kind)),
                   ![r].pc = IF rest = <<>> THEN "done" ELSE @]
    /\ UNCHANGED << cfgvars, params_env, orchvars, children, sessions, api_last_activity, now >>

\* The scopes of a dynamic request are left one by one, innermost first;
\* leaving the last one (stdio_client) terminates the child and ends the request.
DynamicUnwind(r) ==
    /\ reqs[r].pc = "unwind"
    /\ reqs[r].stack # <<>>
    /\ LET i == NextToRelease(reqs[r].stack)
           res == reqs[r].stack[i]
           rest == Without(reqs[r].stack, i)
       IN  reqs' = [reqs EXCEPT
                   ![r].stack = rest,
                   ![r].children = IF res.kind = "stdio" THEN Terminate(@, res.child) ELSE @,
                   ![r].hdrs = IF rest = <<>> THEN NoHeaders ELSE @,
                   ![r].env = IF rest = <<>> THEN EmptyEnv ELSE @,
                   ![r].mgr = IF res.kind = "run" THEN "exited" ELSE @,
                   ![r].msessions = IF res.kind = "run" THEN {} ELSE @,
                   ![r].trace = IF rest = <<>> THEN @ \o << ExitEvent(res.kind), "response" >>
                                ELSE Append(@, ExitEvent(res.kind)),
                   ![r].pc = IF rest = <<>> THEN "done" ELSE @]
    /\ UNCHANGED << cfgvars, params_env, orchvars, children, sessions, api_last_activity, now >>

(***************************************************************************)
(* The requests a specification sends.                                     *)
(***************************************************************************)
CorePaths ==
    { P_status, P_sse, P_mcp, P_messages,
      P_servers("a") \o P_mcp, P_servers("a") \o P_sse \o << S >>,
      P_servers("b") \o P_sse, P_servers("b") \o P_mcp, P_servers("b") \o P_messages }

CoreScopes == { MakeScope("http", p, <<>>, FALSE) : p \in CorePaths }

Headers(key, tok) == [w \in WireNames |-> IF w = "x-api-key" THEN key ELSE tok]

CoreHeaders ==
    { Headers(Absent, Absent), Headers("", "t1"), Headers("k1", Absent), Headers("k2", "t1") }

Arrival(r, scopes, headers) ==
    \E scope \in scopes :
        \/ NotFound(r, scope)
        \/ Redirected(r, scope)
        \/ HandleStatus(r, scope)
        \/ HandlePostMessage(r, scope)
        \/ HandleSseInstance(r, scope)
        \/ HandleStreamableHttpInstance(r, scope)
        \/ \E hdrs \in headers : DynamicStart(r, scope, hdrs)

Progress(r) ==
    \/ SseInstanceEnd(r)
    \/ StreamableHttpInstanceEnd(r)
    \/ DynamicSpawn(r)
    \/ DynamicSseRun(r)
    \/ DynamicMcpRun(r)
    \/ DynamicEnd(r)
    \/ DynamicUnwind(r)

Next ==
    \/ Orchestrator
    \/ \E r \in Reqs : Arrival(r, CoreScopes, CoreHeaders) \/ Progress(r)

Spec == Init /\ [][Next]_vars

(***************************************************************************)
(* One request drawn from a wide set of scopes: http and websocket, paths  *)
(* with and without trailing slash, subpaths, query strings, raw paths     *)
(* with and without the query string.                                      *)
(***************************************************************************)
RoutePaths ==
    CorePaths \cup
    { << S >>, P_mcp \o << S >>, P_mcp \o << S, "x" >>, P_mcp \o P_mcp,
      P_servers("a") \o P_mcp \o << S >>, P_servers("a") \o P_mcp \o P_mcp,
      P_servers("a") \o P_messages,
      P_servers("b") \o P_mcp \o << S >>, P_servers("b") \o P_mcp \o << S, "x" >>,
      P_servers("b") \o P_mcp \o P_mcp, P_servers("b") \o P_mcp \o P_mcp \o << S >>,
      P_servers("b") \o << S, "messages" >>, P_servers("c") \o P_mcp }

Queries == { <<>>, << "x=1" >>, << "a", Q, S >> }

RouteScopes ==
    { MakeScope(t, p, q, rq) :
        t \in {"http", "websocket"}, p \in RoutePaths, q \in Queries, rq \in BOOLEAN }

NextRoute ==
    \/ Orchestrator
    \/ Arrival(1, RouteScopes, {NoHeaders})
    \/ Progress(1)

SpecRoute == Init /\ [][NextRoute]_vars

(***************************************************************************)
(* Properties.                                                             *)
(***************************************************************************)
TraceHas(r, ev) == \E i \in 1..Len(reqs[r].trace) : reqs[r].trace[i] = ev

Live(chs) == { i \in 1..Len(chs) : chs[i].alive }

\* The backends the configuration makes static: the default one, and every
\* named one with no entry, or an empty one, in header_mappings.
StaticConfigured ==
    (IF default_server_params THEN {"default"} ELSE {})
    \cup { named_server_params[i] : i \in { j \in 1..Len(named_server_params) :
               ~header_mappings[named_server_params[j]].present
               \/ header_mappings[named_server_params[j]].map = <<>> } }

DynamicConfigured ==
    { named_server_params[i] : i \in 1..Len(named_server_params) } \ StaticConfigured

\* The handler of dynamic request r holds its per-request scope: stdio_client
\* has returned and the scope has not been left yet.
InScope(r) ==
    /\ IsDynamicApp(reqs[r].app)
    /\ reqs[r].pc \in {"session", "running", "in_handle_request", "unwind"}

\* C1: a dynamic backend has no child of its own at any time, so none before
\* its first request; a dynamic request launches at most one child, none
\* before its stdio_client call has returned, holds exactly one live child from
\* then until its scope is left, and has no live child once it has completed,
\* however it ended; no other request launches any.
C1_DynamicChildPerRequest ==
    /\ \A b \in DynamicConfigured : children[b] = <<>>
    /\ \A r \in Reqs :
          /\ Len(reqs[r].children) <= 1
          /\ ~IsDynamicApp(reqs[r].app) => reqs[r].children = <<>>
          /\ reqs[r].pc \in {"idle", "spawning"} => reqs[r].children = <<>>
          /\ InScope(r) => Len(reqs[r].children) = 1 /\ Live(reqs[r].children) = {1}
          /\ reqs[r].pc = "done" => Live(reqs[r].children) = {}

\* A dynamic request ended by a client disconnect has launched a child that is
\* dead, while another dynamic request holds its own live child.
C1_Witness ==
    \E r, q \in Reqs :
        /\ reqs[r].pc = "done" /\ reqs[r].outcome = "disconnect"
        /\ IsDynamicApp(reqs[r].app) /\ Len(reqs[r].children) = 1
        /\ reqs[q].pc = "running" /\ reqs[q].app = "handle_dynamic_sse"
        /\ Live(reqs[q].children) = {1}

\* C2: every static backend has at most one child launched for it, exactly
\* one from the moment the server serves until the application ends, and no
\* request to a static backend launches any.
C2_StaticOneChild ==
    /\ \A b \in StaticConfigured :
          /\ Len(children[b]) <= 1
          /\ served => Len(children[b]) = 1
    /\ \A r \in Reqs : reqs[r].backend \in StaticConfigured => reqs[r].children = <<>>

\* The application has ended after an SSE and a Streamable-HTTP request to the
\* default backend; one child was launched for it.
C2_Witness ==
    /\ pc = "returned" /\ served
    /\ Len(children["default"]) = 1
    /\ \E r, q \in Reqs :
          /\ reqs[r].pc = "done" /\ reqs[r].app = "handle_sse_instance"
          /\ reqs[q].pc = "done" /\ reqs[q].app = "handle_streamable_http_instance"
          /\ reqs[r].backend = "default" /\ reqs[q].backend = "default"

\* The positions of the mapping whose header the request carries with a
\* non-empty value and whose variable is e.
SetBy(map, hdrs, e) ==
    { i \in 1..Len(map) :
        /\ map[i].env = e
        /\ Lower(map[i].header) \in DOMAIN hdrs
        /\ hdrs[Lower(map[i].header)] \notin {Absent, ""} }

\* C3: the environment of the child of a dynamic request is params.env of the
\* backend with exactly the variables changed whose mapped header the request
\* carries with a non-empty value, each to that header's value; no variable is
\* set to the empty string.
C3_MergedEnv ==
    \A r \in Reqs :
        InScope(r) =>
            LET map == header_mappings[reqs[r].backend].map
                hdrs == reqs[r].hdrs
                env == reqs[r].children[1].env
            IN  \A e \in EnvNames :
                  /\ SetBy(map, hdrs, e) = {} => env[e] = BaseEnv(reqs[r].backend)[e]
                  /\ SetBy(map, hdrs, e) # {} =>
                        env[e] \in { hdrs[Lower(map[i].header)] : i \in SetBy(map, hdrs, e) }
                  /\ env[e] # ""

\* A child runs for a request with an empty X-Api-Key and a set X-Tok: API_KEY
\* keeps the base value, TOKEN is added, HOME is kept.
C3_Witness ==
    \E r \in Reqs :
        /\ InScope(r)
        /\ reqs[r].hdrs = Headers("", "t1")
        /\ reqs[r].children[1].env =
              [EmptyEnv EXCEPT !["API_KEY"] = "base", !["TOKEN"] = "t1", !["HOME"] = "/h"]

\* The values a child of request r may hold in variable e: the base value, or
\* the value of one of the request's own headers mapped to e.
OwnValues(r, e) ==
    LET map == header_mappings[reqs[r].backend].map
    IN  { BaseEnv(reqs[r].backend)[e] }
        \cup { HeaderGet(reqs[r].hdrs, map[i].header) : i \in { j \in 1..Len(map) : map[j].env = e } }

\* C4: params.env of no backend is ever changed, and whenever two requests to
\* the same dynamic backend hold children at the same time, each child's
\* environment holds only base values and values of its own request's headers.
C4_Isolation ==
    /\ params_env = [b \in Backends |-> BaseEnv(b)]
    /\ \A r, q \in Reqs :
          (r # q /\ InScope(r) /\ InScope(q) /\ reqs[r].backend = reqs[q].backend) =>
              \A e \in EnvNames : reqs[r].children[1].env[e] \in OwnValues(r, e)

\* Two requests to the same dynamic backend with different keys hold children
\* at the same time, each with its own key.
C4_Witness ==
    \E r, q \in Reqs :
        /\ r # q /\ InScope(r) /\ InScope(q) /\ reqs[r].backend = reqs[q].backend
        /\ reqs[r].hdrs["x-api-key"] = "k1" /\ reqs[q].hdrs["x-api-key"] = "k2"
        /\ reqs[r].children[1].env["API_KEY"] = "k1"
        /\ reqs[q].children[1].env["API_KEY"] = "k2"
        /\ reqs[r].children[1].env["TOKEN"] = Unset

\* The raw path the claim expects: the path part followed by "/" and by the
\* query string as it was.
ExpectedRawPath(raw_path) ==
    IF Contains(raw_path, Q)
    THEN SplitFirst(raw_path, Q).before \o << S, Q >> \o SplitFirst(raw_path, Q).after
    ELSE raw_path \o << S >>

CalledHandleRequest(r) ==
    /\ reqs[r].app \in {"handle_streamable_http_instance", "handle_dynamic_mcp"}
    /\ TraceHas(r, "handle_request")

\* C5: whenever handle_request is called for a request to /mcp or
\* /servers/x/mcp, on a static or a dynamic backend, the scope it is given has
\* a path ending in "/" and the raw path with "/" added to its path part and
\* the query string unchanged.
C5_NormalisedScope ==
    \A r \in Reqs :
        (CalledHandleRequest(r)
         /\ reqs[r].scope.path \in ({P_mcp} \cup {P_servers(n) \o P_mcp : n \in Names})) =>
            /\ Last(reqs[r].sent.path) = S
            /\ reqs[r].sent.raw_path = ExpectedRawPath(reqs[r].scope.raw_path)
            /\ reqs[r].sent.query_string = reqs[r].scope.query_string

\* C6: no request is answered with a redirect.
C6_NoRedirect == \A r \in Reqs : reqs[r].status \notin {301, 302, 307, 308}

TransportApps ==
    {"handle_sse_instance", "handle_streamable_http_instance",
     "handle_dynamic_sse", "handle_dynamic_mcp"}

\* What the claim counts as session I/O.
SessionIO == {"connect_sse", "spawn", "session", "proxy", "run_enter", "handle_request", "proxy_run"}

Before(r, ev1, ev2) ==
    \E i, j \in 1..Len(reqs[r].trace) :
        i < j /\ reqs[r].trace[i] = ev1 /\ reqs[r].trace[j] = ev2

\* C7 as claimed: in every transport handler the activity update comes before
\* the SSE connection is opened, before a child is launched and before the
\* session manager or the proxy is run.
C7_TouchBeforeIO ==
    \A r \in Reqs :
        reqs[r].app \in TransportApps =>
            \A i \in 1..Len(reqs[r].trace) :
                reqs[r].trace[i] \in SessionIO =>
                    \E j \in 1..(i - 1) : reqs[r].trace[j] = "touch"

\* C7 as amended: every transport handler that has started has updated the
\* activity; the static Streamable-HTTP handler and both dynamic handlers do
\* so before any session I/O; the static SSE handler does so after its SSE
\* connection is opened and before the proxy is run.
C7_TouchOrder ==
    \A r \in Reqs :
        reqs[r].app \in TransportApps =>
            /\ TraceHas(r, "touch")
            /\ reqs[r].app # "handle_sse_instance" =>
                  \A i \in 1..Len(reqs[r].trace) :
                      reqs[r].trace[i] \in SessionIO =>
                          \E j \in 1..(i - 1) : reqs[r].trace[j] = "touch"
            /\ reqs[r].app = "handle_sse_instance" =>
                  /\ Before(r, "connect_sse", "touch")
                  /\ Before(r, "touch", "proxy_run")
                  /\ ~Before(r, "proxy_run", "touch")

\* A static SSE request runs its proxy while a dynamic request has launched
\* its child after updating the activity.
C7_Witness ==
    \E r, q \in Reqs :
        /\ reqs[r].app = "handle_sse_instance" /\ reqs[r].pc = "running"
        /\ reqs[r].trace[1] = "connect_sse"
        /\ IsDynamicApp(reqs[q].app) /\ reqs[q].pc = "session"
        /\ Before(q, "touch", "spawn")

\* C8 as claimed: once a request that matched a route has resolved,
\* api_last_activity is newer than it was when the request started.
C8_ActivityNewer ==
    \A r \in Reqs :
        (reqs[r].pc = "done" /\ reqs[r].app \notin {"not_found", "redirect"}) =>
            api_last_activity > reqs[r].start_activity

\* C8 as amended: once an SSE or Streamable-HTTP request has resolved,
\* api_last_activity is newer than it was when the request started; requests
\* to /status and /messages/, and requests no route handles, never update it,
\* so that it keeps its initial value as long as only such requests arrive.
C8_TransportActivityNewer ==
    /\ \A r \in Reqs :
          /\ (reqs[r].pc = "done" /\ reqs[r].app \in TransportApps) =>
                api_last_activity > reqs[r].start_activity
          /\ reqs[r].app \notin TransportApps => ~TraceHas(r, "touch")
    /\ (\A r \in Reqs : reqs[r].app \notin TransportApps) => api_last_activity = 0
    /\ api_last_activity <= now

\* A /status request has resolved with the activity unchanged and a later
\* Streamable-HTTP request has resolved with a newer one.
C8_Witness ==
    \E r, q \in Reqs :
        /\ reqs[r].pc = "done" /\ reqs[r].app = "_handle_status"
        /\ reqs[q].pc = "done" /\ reqs[q].app = "handle_streamable_http_instance"
        /\ reqs[q].start_activity = 0 /\ api_last_activity = 2

Position(r, ev) == CHOOSE i \in 1..Len(reqs[r].trace) : reqs[r].trace[i] = ev

\* C9: handle_request is only called on a manager inside its run() scope: a
\* static manager is inside it while the server serves and leaves it only when
\* run_mcp_server unwinds after serving (or never served); a dynamic request calls
\* handle_request after entering and before leaving the run() scope of its own
\* manager.
C9_HandleRequestInRun ==
    /\ \A r \in Reqs : CalledHandleRequest(r) => reqs[r].mgr_at_call = "running"
    /\ \A b \in StaticConfigured :
          /\ pc = "serving" => mgr[b] = "running"
          /\ mgr[b] = "exited" => pc \in {"unwinding", "returned"}
    /\ \A r \in Reqs :
          reqs[r].app = "handle_dynamic_mcp" =>
              /\ reqs[r].pc = "in_handle_request" => reqs[r].mgr = "running"
              /\ TraceHas(r, "handle_request") =>
                    /\ TraceHas(r, "run_enter")
                    /\ Position(r, "run_enter") < Position(r, "handle_request")
              /\ TraceHas(r, "run_exit") =>
                    /\ TraceHas(r, "handle_request")
                    /\ Position(r, "handle_request") < Position(r, "run_exit")

\* A static and a dynamic Streamable-HTTP request are both inside handle_request.
C9_Witness ==
    \E r, q \in Reqs :
        /\ reqs[r].pc = "in_handle_request" /\ reqs[r].app = "handle_streamable_http_instance"
        /\ reqs[q].pc = "in_handle_request" /\ reqs[q].app = "handle_dynamic_mcp"
        /\ reqs[r].mgr_at_call = "running" /\ reqs[q].mgr_at_call = "running"

AllStaticChildrenDead == \A b \in Backends : Live(children[b]) = {}

\* C10: once the server has served, what the master stack has released so
\* far, followed by what it still holds in reverse, is the reverse of what was
\* acquired; when run_mcp_server has returned everything acquired has been
\* released in reverse order and no static child is alive.
C10_ReverseRelease ==
    served =>
        /\ released \o Reverse(stack) = Reverse(acquired)
        /\ pc = "returned" => released = Reverse(acquired) /\ AllStaticChildrenDead

\* run_mcp_server has returned after a fatal server error with two static
\* backends: child, session and manager of each were released.
C10_Witness ==
    /\ pc = "returned" /\ served /\ exc = "ServerError"
    /\ Len(released) = 6
    /\ released[1].kind = "run" /\ released[6].kind = "stdio"
    /\ released[6].owner = "default"

NoBackend == ~default_server_params /\ named_server_params = <<>>

\* C11: with no default and no named backend, run_mcp_server launches no
\* child, acquires nothing, adds no route, never builds the application nor
\* starts the server (both happen in Serve), and when it has returned it has
\* logged the configuration error and raised nothing; with a backend
\* configured it logs no such error.
C11_NoServersReturns ==
    /\ NoBackend =>
          /\ \A b \in Backends : children[b] = <<>>
          /\ acquired = <<>> /\ stack = <<>>
          /\ ~served /\ redirect_slashes /\ pc # "serving"
          /\ Len(all_routes) = 1
          /\ \A r \in Reqs : reqs[r].pc = "idle"
          /\ pc = "returned" => log = << "No servers configured to run." >> /\ exc = "none"
          /\ pc \in {"setup_default", "setup_named"} => log = <<>>
    /\ ~NoBackend => log = <<>>

\* run_mcp_server has returned with nothing configured, after logging the error.
C11_Witness ==
    /\ NoBackend /\ pc = "returned" /\ ~served
    /\ log = << "No servers configured to run." >>

\* C12: when launching the child of a static backend fails at start-up, the
\* server never starts and no request is served; the failing backend has no
\* child; the master stack releases what the earlier backends acquired in
\* reverse order, and when run_mcp_server is left (with the failure as its
\* exception) every child launched is dead, every manager's run() scope has
\* been left and nothing is held any more.
C12_StartupSpawnFailure ==
    exc = "SpawnFailed" =>
        /\ ~served /\ pc \in {"unwinding", "returned"}
        /\ \A r \in Reqs : reqs[r].pc = "idle"
        /\ children[cur] = <<>>
        /\ released \o Reverse(stack) = Reverse(acquired)
        /\ pc = "returned" =>
              /\ stack = <<>> /\ released = Reverse(acquired)
              /\ \A b \in Backends : Live(children[b]) = {} /\ mgr[b] \in {"none", "exited"}

\* The default backend was set up, the launch of backend a failed, and
\* run_mcp_server was left after releasing manager, session and child of the
\* default backend.
C12_Witness ==
    /\ exc = "SpawnFailed" /\ pc = "returned" /\ cur = "a"
    /\ Len(children["default"]) = 1 /\ ~children["default"][1].alive
    /\ Len(released) = 3 /\ released[3].kind = "stdio" /\ mgr["default"] = "exited"

SpawnFailedReq(r) == reqs[r].outcome = "spawn_failed"

\* C13: a dynamic request whose child could not be launched is answered 500
\* and has no child; the failure is not raised in run_mcp_server, which keeps
\* serving with every static child alive and every static manager running;
\* every other dynamic request in its scope, earlier or later, to the same
\* backend or another, holds its own live child, and every other request is
\* dispatched and answered as if the failure had not happened.
C13_DynamicSpawnFailureContained ==
    \A r \in Reqs :
        SpawnFailedReq(r) =>
            /\ reqs[r].pc = "done" /\ reqs[r].status = 500
            /\ reqs[r].children = <<>> /\ reqs[r].stack = <<>>
            /\ served /\ exc # "SpawnFailed"
            /\ pc = "serving" =>
                  \A b \in StaticConfigured : Live(children[b]) = {1} /\ mgr[b] = "running"
            /\ \A q \in Reqs \ {r} :
                  /\ InScope(q) => Live(reqs[q].children) = {1}
                  /\ (reqs[q].pc = "done" /\ reqs[q].outcome = "ok") => reqs[q].status = 200

\* The launch failed for the first request to dynamic backend b; a later
\* request to b runs with its own child, a static child being alive.
C13_Witness ==
    /\ SpawnFailedReq(1) /\ reqs[1].backend = "b"
    /\ reqs[2].backend = "b" /\ reqs[2].pc = "running" /\ Live(reqs[2].children) = {1}
    /\ pc = "serving" /\ Live(children["a"]) = {1}

Disconnected(r) == reqs[r].outcome = "disconnect"

\* The master stack has released the child of static backend b.
MasterReleased(b) ==
    \E i \in 1..Len(released) : released[i].kind = "stdio" /\ released[i].owner = b

\* C14: after a client disconnect a dynamic request leaves its scopes and,
\* once it has, the child launched for it is dead; a static request has left
\* its own scope (for SSE, the connect_sse scope), has launched and
\* terminated no child, and the shared child of its backend is alive until
\* the master stack releases it, so alive, with its manager running, for as
\* long as the server serves.
C14_DisconnectUnwinds ==
    \A r \in Reqs :
        Disconnected(r) =>
            /\ IsDynamicApp(reqs[r].app) =>
                  /\ reqs[r].pc \in {"unwind", "done"}
                  /\ Len(reqs[r].children) = 1
                  /\ reqs[r].pc = "done" =>
                        /\ reqs[r].stack = <<>> /\ Live(reqs[r].children) = {}
                        /\ TraceHas(r, "terminate")
            /\ ~IsDynamicApp(reqs[r].app) =>
                  /\ reqs[r].pc = "done" /\ reqs[r].stack = <<>> /\ reqs[r].children = <<>>
                  /\ reqs[r].app = "handle_sse_instance" => TraceHas(r, "exit_sse")
                  /\ Len(children[reqs[r].backend]) = 1
                  /\ children[reqs[r].backend][1].alive <=> ~MasterReleased(reqs[r].backend)
                  /\ pc = "serving" => /\ Live(children[reqs[r].backend]) = {1}
                                       /\ mgr[reqs[r].backend] = "running"

\* The client of a dynamic request and then the client of a static SSE
\* request disconnected: the child of the first is dead, the shared child of
\* the second is alive and the server serves.
C14_Witness ==
    /\ Disconnected(1) /\ reqs[1].app = "handle_dynamic_sse" /\ reqs[1].pc = "done"
    /\ Len(reqs[1].children) = 1 /\ ~reqs[1].children[1].alive
    /\ Disconnected(2) /\ reqs[2].app = "handle_sse_instance" /\ reqs[2].pc = "done"
    /\ pc = "serving" /\ Live(children[reqs[2].backend]) = {1}

NamedConfigured == { named_server_params[i] : i \in 1..Len(named_server_params) }

\* The mount of backend name in the route tree, if there is exactly one.
MountsOf(name) ==
    { i \in 1..Len(all_routes) :
        all_routes[i].kind = "Mount" /\ all_routes[i].path = P_servers(name) }

Owned(b) == { i \in 1..Len(acquired) : acquired[i].owner = b }

\* C15: once start-up is over, a named backend with a non-empty header
\* mapping is tagged "dynamic", has its dynamic routes mounted, and neither a
\* child nor anything on the master stack; every other named backend is
\* tagged "static", has its static routes mounted and exactly one child,
\* launched at start-up with the backend's own environment; a configured
\* default backend is tagged "configured" and has exactly one child; a
\* backend that is not configured has no tag and no child.
C15_ModePerBackend ==
    served =>
        /\ \A name \in NamedConfigured :
              /\ Cardinality(MountsOf(name)) = 1
              /\ (header_mappings[name].present /\ header_mappings[name].map # <<>>) =>
                    /\ server_instances[name] = "dynamic"
                    /\ children[name] = <<>> /\ Owned(name) = {}
                    /\ \A i \in MountsOf(name) :
                          all_routes[i].routes = create_dynamic_server_routes(name)
              /\ ~(header_mappings[name].present /\ header_mappings[name].map # <<>>) =>
                    /\ server_instances[name] = "static"
                    /\ Len(children[name]) = 1 /\ children[name][1].env \in {BaseEnv(name), EmptyEnv}
                    /\ Cardinality(Owned(name)) = 3
                    /\ \A i \in MountsOf(name) :
                          all_routes[i].routes = create_single_instance_routes(name)
        /\ default_server_params =>
              /\ server_instances["default"] = "configured"
              /\ Len(children["default"]) = 1 /\ Cardinality(Owned("default")) = 3
        /\ \A b \in Backends \ (NamedConfigured \cup (IF default_server_params THEN {"default"} ELSE {})) :
              server_instances[b] = "none" /\ children[b] = <<>>

\* The server serves a default backend, static backend a (empty mapping) and
\* dynamic backend b.
C15_Witness ==
    /\ pc = "serving" /\ default_server_params
    /\ header_mappings["a"] = EmptyMapping /\ header_mappings["b"] = SomeMapping
    /\ server_instances = [default |-> "configured", a |-> "static", b |-> "dynamic"]
    /\ Live(children["a"]) = {1} /\ children["b"] = <<>>

\* Request q carries the session id that request r to the same backend was
\* given, and handle_request has been called for q.
Resumes(q, r) ==
    /\ q # r /\ reqs[r].issued # 0 /\ reqs[q].sid = reqs[r].issued
    /\ reqs[q].backend = reqs[r].backend
    /\ CalledHandleRequest(q)

\* C16: in stateful mode, a request carrying the session id an earlier request
\* to the same backend, static or dynamic, was given is handled by a manager
\* that knows the session.
C16_SessionRetained ==
    \A r, q \in Reqs : (~stateless /\ Resumes(q, r)) => reqs[q].known = "known"

\* The order in which handler app acquires and releases, from its first
\* statement to its return.
ExpectedTrace(app) ==
    << "touch", "extract", "merge", "spawn", "session", "proxy" >>
    \o (IF app = "handle_dynamic_sse"
        THEN << "connect_sse", "proxy_run", "exit_sse" >>
        ELSE << "run_enter", "handle_request", "run_exit" >>)
    \o << "exit_session", "terminate", "response" >>

IsPrefix(s, t) == Len(s) <= Len(t) /\ SubSeq(t, 1, Len(s)) = s

\* C17: what a dynamic request whose child was launched has done so far is
\* always a prefix of: child launched, ClientSession entered, proxy created,
\* transport scope entered and used, transport scope left, ClientSession
\* left, child terminated, handler returned.  The child is dead exactly when
\* its termination is recorded, and a completed request has done all of it.
C17_AcquireReleaseOrder ==
    \A r \in Reqs :
        (IsDynamicApp(reqs[r].app) /\ ~SpawnFailedReq(r)) =>
            /\ IsPrefix(reqs[r].trace, ExpectedTrace(reqs[r].app))
            /\ reqs[r].children # <<>> =>
                  (reqs[r].children[1].alive <=> ~TraceHas(r, "terminate"))
            /\ reqs[r].pc = "done" => reqs[r].trace = ExpectedTrace(reqs[r].app)
            /\ TraceHas(r, "response") => reqs[r].pc = "done" /\ Live(reqs[r].children) = {}

\* A dynamic SSE request has left its transport scope and its ClientSession
\* and still holds its live child, while a dynamic Streamable-HTTP request
\* has completed.
C17_Witness ==
    \E r, q \in Reqs :
        /\ reqs[r].app = "handle_dynamic_sse" /\ reqs[r].pc = "unwind"
        /\ TraceHas(r, "exit_session") /\ Live(reqs[r].children) = {1}
        /\ reqs[q].app = "handle_dynamic_mcp" /\ reqs[q].pc = "done"
        /\ TraceHas(q, "run_exit") /\ ~reqs[q].children[1].alive

\* The request's path lies under /servers/<name>/messages.
UnderMessages(r, name) ==
    StartsWith(reqs[r].scope.path, P_servers(name) \o << S, "messages" >>)

\* C18: the mount of a dynamic backend holds exactly the /mcp route, the /mcp
\* mount and the /sse route, none of them at /messages; no request is ever
\* handed to a handle_post_message of a dynamic backend, and a request to
\* /servers/<name>/messages/ of a dynamic backend is answered 404 by the
\* router, also while an SSE session of that backend is open; for a static
\* backend the same path is served by handle_post_message of that backend.
C18_DynamicHasNoMessages ==
    /\ served =>
          \A name \in DynamicConfigured : \A i \in MountsOf(name) :
              LET rs == all_routes[i].routes
              IN  /\ Len(rs) = 3
                  /\ rs[1].kind = "Route" /\ rs[1].path = << S, "mcp" >>
                  /\ rs[2].kind = "Mount" /\ rs[2].path = << S, "mcp" >>
                  /\ rs[3].kind = "Route" /\ rs[3].path = << S, "sse" >>
                  /\ \A j \in 1..3 : rs[j].app # "handle_post_message"
    /\ \A r \in Reqs :
          /\ reqs[r].app = "handle_post_message" => reqs[r].backend \in StaticConfigured
          /\ \A name \in DynamicConfigured :
                (reqs[r].pc # "idle" /\ UnderMessages(r, name)) =>
                    /\ reqs[r].app = "not_found" /\ reqs[r].status = 404
                    /\ ~TraceHas(r, "handle_post_message")
          /\ \A name \in StaticConfigured \ {"default"} :
                (reqs[r].pc # "idle" /\ reqs[r].scope.path = P_servers(name) \o << S, "messages", S >>) =>
                    /\ reqs[r].app = "handle_post_message" /\ reqs[r].backend = name
                    /\ TraceHas(r, "handle_post_message")

\* While an SSE session of dynamic backend b is open, a request to
\* /servers/b/messages/ has been answered 404.
C18_Witness ==
    /\ "b" \in DynamicConfigured
    /\ reqs[1].app = "handle_dynamic_sse" /\ reqs[1].backend = "b" /\ reqs[1].pc = "running"
    /\ reqs[2].scope.path = << S, "servers", S, "b", S, "messages", S >>
    /\ reqs[2].pc = "done" /\ reqs[2].status = 404

\* The /mcp path of the backend that handles request r.
McpBase(r) ==
    IF reqs[r].backend = "default" THEN << S, "mcp" >>
    ELSE << S, "servers", S, reqs[r].backend, S, "mcp" >>

\* The path of request r is a subpath of /mcp that goes deeper than "/mcp/".
Deeper(r) ==
    /\ StartsWith(reqs[r].origin.path, McpBase(r) \o << S >>)
    /\ Len(reqs[r].origin.path) > Len(McpBase(r)) + 1

\* Nothing but "path" and "raw_path" differs between the two scopes.
SameButPath(s1, s2) ==
    /\ s1.type = s2.type /\ s1.query_string = s2.query_string /\ s1.root_path = s2.root_path

\* C19 as claimed: when handle_request is called, the incoming scope is as it
\* arrived, the scope handed on differs from it in path and raw_path at most,
\* and it is the incoming scope itself when the path ends in "/", is a deeper
\* subpath of /mcp, or the scope is not an http scope.
C19_FrameEffect ==
    \A r \in Reqs :
        CalledHandleRequest(r) =>
            /\ reqs[r].scope = reqs[r].origin
            /\ SameButPath(reqs[r].sent, reqs[r].origin)
            /\ (Last(reqs[r].origin.path) = S \/ Deeper(r) \/ reqs[r].origin.type # "http") =>
                  reqs[r].sent = reqs[r].origin

\* The last segment of a deeper subpath is "mcp" again (/servers/x/mcp/mcp).
EndsInMcpAgain(r) == Deeper(r) /\ EndsWith(reqs[r].origin.path, << S, "mcp" >>)

\* C19 as amended: as claimed, except that the dynamic handler appends "/" to
\* path and raw path of an http request to a deeper subpath whose last
\* segment is "mcp"; every other deeper subpath, every path ending in "/"
\* and every scope that is not an http scope is handed on unchanged.
C19_FrameEffectAmended ==
    \A r \in Reqs :
        CalledHandleRequest(r) =>
            /\ reqs[r].scope = reqs[r].origin
            /\ SameButPath(reqs[r].sent, reqs[r].origin)
            /\ reqs[r].sent.path \in {reqs[r].origin.path, reqs[r].origin.path \o << S >>}
            /\ reqs[r].sent.path = reqs[r].origin.path => reqs[r].sent = reqs[r].origin
            /\ (reqs[r].app = "handle_dynamic_mcp" /\ EndsInMcpAgain(r)
                   /\ reqs[r].origin.type = "http") =>
                  reqs[r].sent.path = reqs[r].origin.path \o << S >>
            /\ ( \/ Last(reqs[r].origin.path) = S
                 \/ reqs[r].origin.type # "http"
                 \/ Deeper(r) /\ ~(reqs[r].app = "handle_dynamic_mcp" /\ EndsInMcpAgain(r)) ) =>
                  reqs[r].sent = reqs[r].origin

\* handle_request has been called with a normalised copy for /mcp?x=1, the
\* incoming scope being as it arrived.
C19_Witness ==
    /\ CalledHandleRequest(1)
    /\ reqs[1].origin.path = << S, "mcp" >> /\ reqs[1].origin.raw_path = << S, "mcp", Q, "x=1" >>
    /\ reqs[1].scope = reqs[1].origin
    /\ reqs[1].sent.path = << S, "mcp", S >> /\ reqs[1].sent.raw_path = << S, "mcp", S, Q, "x=1" >>

====
